---- MODULE Spec2Model ----
(***************************************************************************)
(* mqttweather (src/src/weather.py): a bridge that polls a forecast API,   *)
(* derives interpolated and aggregated readings from the returned time     *)
(* series and publishes them, retained, on an MQTT bus.                    *)
(*                                                                         *)
(* Conventions of the model                                                *)
(*  - An aware datetime is an instant: an integer number of ticks on the   *)
(*    UTC time line.  Wall-clock fields of a zone are obtained with        *)
(*    LocalWall and turned back into an instant with FromLocalWall.        *)
(*  - A weather value is a fixed-point integer in hundredths (10.0 is      *)
(*    1000).  Arithmetic is exact rational arithmetic on these integers;   *)
(*    binary floating point error and the microsecond resolution of        *)
(*    timedelta products are below the resolution of the model.            *)
(*  - A Python dict is a function whose DOMAIN is its key set.             *)
(***************************************************************************)
EXTENDS Integers, Sequences, FiniteSets, TLC

VARIABLES
    pc,         \* position of the main thread
    cycle,      \* number of the polling cycle in progress
    data,       \* local `data` of start(): the parsed sample series
    now,        \* local `now` of start()
    window,     \* index of the aggregation window the loop of line 127 is at
    published,  \* publish calls on reading topics made during this cycle
    log,        \* logging.error lines written during this cycle
    outcome,    \* how the cycle in progress has gone so far
    utcoffset,  \* offset of the process's local zone from UTC, in ticks
    net,        \* position of the bus client's network thread
    connects,   \* number of CONNACKs delivered so far
    presence    \* publish calls on the presence topic, oldest first

vars == <<pc, cycle, data, now, window, published, log, outcome,
          utcoffset, net, connects, presence>>

cyclevars == <<cycle, data, now, window, published, log, outcome>>

(***************************************************************************)
(* Bounds of the model.                                                    *)
(***************************************************************************)
TicksPerHour == 2
MaxLen == 4
MaxWindowLen == 3
MaxEntries == 2
MaxCycles == 2
MaxConnects == 2

Hour == TicksPerHour
Day == 24 * Hour

(***************************************************************************)
(* Configuration and static tables.                                        *)
(***************************************************************************)
mqtt_base_topic == "weather"

state_topic == mqtt_base_topic \o "/bridge/state"

prop_map ==
    [temperature |-> "air_temperature",
     pressure |-> "air_pressure_at_sea_level",
     humidity |-> "relative_humidity",
     clouds |-> "cloud_area_fraction",
     wind_speed |-> "wind_speed",
     wind_direction |-> "wind_from_direction",
     ultraviolet_index_clear_sky |-> "ultraviolet_index_clear_sky"]

\* range(0, 19): the last forecast offset, in hours
LastOffset == 18

Offsets == 0 .. LastOffset

(***************************************************************************)
(* Numeric helpers.                                                        *)
(***************************************************************************)
RoundTruncates(num, den) ==
    IF den < 0 THEN (-num) \div (-den) ELSE num \div den

\* Python's round() of the rational num/den: the nearest integer, a tie
\* to the even neighbour
Round(num, den) ==
    LET n == IF den < 0 THEN -num ELSE num
        d == IF den < 0 THEN -den ELSE den
        q == n \div d
        r == n - q * d
    IN  IF 2 * r < d THEN q
        ELSE IF 2 * r > d THEN q + 1
        ELSE IF q % 2 = 0 THEN q ELSE q + 1

RECURSIVE SumSeq(_)
SumSeq(s) == IF Len(s) = 0 THEN 0 ELSE Head(s) + SumSeq(Tail(s))

MinOf(S) == CHOOSE m \in S : \A y \in S : m <= y

MaxOf(S) == CHOOSE m \in S : \A y \in S : m >= y

Values(s, field) == {s[i][field] : i \in 1 .. Len(s)}

(***************************************************************************)
(* Time zones.                                                             *)
(***************************************************************************)
\* now.astimezone(zone): the wall-clock reading of an instant in the zone
LocalWall(t, off) == t + off

\* datetime(y, m, d, ..., tzinfo=zone): the instant of a wall-clock reading
FromLocalWall(w, off) == w - off

EndOfDayUTC(t, off) == (t \div Day) * Day + Day

\* lines 125-126: datetime(now_local.year, now_local.month, now_local.day,
\* 0, 0, 0, tzinfo=get_localzone()) + timedelta(days=1)
EndOfDay(t, off) ==
    LET now_local == LocalWall(t, off)
        midnight == (now_local \div Day) * Day
    IN  FromLocalWall(midnight + Day, off)

(***************************************************************************)
(* Interpolation (lines 108-122).                                          *)
(***************************************************************************)
BracketsClosed(a, b, t) == a["time"] <= t /\ t <= b["time"]

BracketsBefore(a, b, t) == t < b["time"]

\* line 113: a['time'] < pred_time < b['time']
Brackets(a, b, t) == a["time"] < t /\ t < b["time"]

\* line 112-113: index of the first pair of zip(data[:-1], data[1:]) that
\* brackets t, 0 when the scan finds none
FirstBracket(s, t) ==
    LET K == {k \in 1 .. Len(s) - 1 : Brackets(s[k], s[k + 1], t)}
    IN  IF K = {} THEN 0 ELSE MinOf(K)

\* line 115: the keys k of prop_map with v in a and v in b
SharedVars(a, b) ==
    {k \in DOMAIN prop_map : prop_map[k] \in DOMAIN a /\ prop_map[k] \in DOMAIN b}

\* line 115: the division by b['time'] - a['time'] raises ZeroDivisionError
InterpolateRaises(a, b) == b["time"] - a["time"] = 0 /\ SharedVars(a, b) # {}

\* lines 115-117: a[v] + (b[v]-a[v])*(pred_time-a.time)/(b.time-a.time),
\* then round(v*10)/10, for every shared variable
Interpolated(a, b, t) ==
    [k \in SharedVars(a, b) |->
        LET v == prop_map[k]
            span == b["time"] - a["time"]
            num == a[v] * span + (b[v] - a[v]) * (t - a["time"])
        IN  Round(num, span * 10) * 10]

\* lines 111-118: pred is None unless a pair brackets t
Forecast(s, t) ==
    LET k == FirstBracket(s, t)
    IN  IF k = 0 THEN [some |-> FALSE]
        ELSE [some |-> TRUE, val |-> Interpolated(s[k], s[k + 1], t)]

\* line 120: `if pred:` - None and the empty dict are both false
Truthy(pred) == pred.some /\ DOMAIN pred.val # {}

\* line 121
ForecastTopic(i) ==
    mqtt_base_topic \o
        (IF i = 0 THEN "/current" ELSE "/forecast/" \o ToString(i) \o "h")

Message(topic, payload, qos) ==
    [topic |-> topic, payload |-> payload, qos |-> qos, retain |-> TRUE]

\* lines 108-122, offsets i .. LastOffset: the messages published, in
\* order, and whether an offset raised (which ends the loop there)
RECURSIVE ForecastLoop(_, _, _)
ForecastLoop(s, t0, i) ==
    IF i > LastOffset THEN [msgs |-> <<>>, raised |-> FALSE]
    ELSE LET t == t0 + i * Hour
             k == FirstBracket(s, t)
         IN  IF k # 0 /\ InterpolateRaises(s[k], s[k + 1])
             THEN [msgs |-> <<>>, raised |-> TRUE]
             ELSE LET pred == Forecast(s, t)
                      rest == ForecastLoop(s, t0, i + 1)
                  IN  [msgs |-> (IF Truthy(pred)
                                 THEN <<Message(ForecastTopic(i), pred.val, 0)>>
                                 ELSE <<>>) \o rest.msgs,
                       raised |-> rest.raised]

(***************************************************************************)
(* Aggregation (lines 124-141).                                            *)
(***************************************************************************)
\* line 127: the (s, e, title) of the two windows
WindowStart(w, t, off) == IF w = 1 THEN t ELSE EndOfDay(t, off)

WindowEnd(w, t, off) ==
    IF w = 1 THEN EndOfDay(t, off) ELSE EndOfDay(t, off) + Day

WindowTitle(w) == IF w = 1 THEN "today" ELSE "tomorrow"

WindowTopic(w) == mqtt_base_topic \o "/forecast/" \o WindowTitle(w)

\* line 128: s <= x['time'] < e
InWindow(x, s, e) == s <= x["time"] /\ x["time"] < e

PredRange(d, s, e) == SelectSeq(d, LAMBDA x : InWindow(x, s, e))

\* lines 133-136 subscript these fields without testing for them
AggregateFields ==
    {prop_map["temperature"], prop_map["clouds"],
     "ultraviolet_index_clear_sky", "wind_speed"}

\* lines 133-136: a sample without one of them raises KeyError
AggregateRaises(r) ==
    \E i \in 1 .. Len(r) : ~(AggregateFields \subseteq DOMAIN r[i])

UvTermsClearSky(r) ==
    [i \in 1 .. Len(r) |-> 10000 * r[i]["ultraviolet_index_clear_sky"]]

\* line 135: the terms 0.01*(100-clouds)*uv, in units of 10^-6
UvTerms(r) ==
    [i \in 1 .. Len(r) |->
        (10000 - r[i][prop_map["clouds"]]) * r[i]["ultraviolet_index_clear_sky"]]

\* line 137: the amounts of the samples that have one
PrecipitationTerms(r) ==
    LET have == SelectSeq(r, LAMBDA x : "precipitation_amount" \in DOMAIN x)
    IN  [i \in 1 .. Len(have) |-> have[i]["precipitation_amount"]]

\* lines 132-139
Aggregated(r) ==
    [temperature_minimum |-> MinOf(Values(r, prop_map["temperature"])),
     temperature_maximum |-> MaxOf(Values(r, prop_map["temperature"])),
     ultraviolet_index_actual_average |->
         Round(SumSeq(UvTerms(r)), 10000 * Len(r)),
     wind_speed_max |-> MaxOf(Values(r, "wind_speed")),
     precipitation_amount |-> SumSeq(PrecipitationTerms(r))]

(***************************************************************************)
(* The upstream response and its parse (lines 94-106).                     *)
(***************************************************************************)
\* an ISO timestamp is represented by the instant it denotes
IsoTime(t) == [valid |-> TRUE, instant |-> t]

\* a string datetime.fromisoformat rejects
Unparsable == [valid |-> FALSE, instant |-> 0]

\* line 95-96 and the subscripts of lines 102-106 raise
FetchRaises(resp) ==
    \/ resp.kind # "ok"
    \/ \E i \in 1 .. Len(resp.timeseries) :
           \/ ~resp.timeseries[i].time.valid
           \/ "instant" \notin DOMAIN resp.timeseries[i].data

\* lines 101-105: {'time': ..., **instant details, **next_1_hours details}
Sample(x) ==
    LET instant == x.data["instant"].details
        next == IF "next_1_hours" \in DOMAIN x.data
                THEN x.data["next_1_hours"].details ELSE <<>>
    IN  [k \in {"time"} \cup DOMAIN instant \cup DOMAIN next |->
            IF k \in DOMAIN next THEN next[k]
            ELSE IF k \in DOMAIN instant THEN instant[k]
            ELSE x.time.instant]

\* lines 100-106: one sample per entry, in input order
BuildSeries(ts) == [i \in 1 .. Len(ts) |-> Sample(ts[i])]

(***************************************************************************)
(* Inputs.                                                                 *)
(***************************************************************************)
SeqsUpTo(S, n) == UNION {[1 .. m -> S] : m \in 0 .. n}

UtcOffsets == {-Hour, 0, Hour}

NowSet == {Day - 3 * Hour, Day - 3 * Hour + 1}

SampleTimes == {Day - 3 * Hour, Day - Hour, Day}

\* every tracked field, and a precipitation amount for the next hour
ProfileFull ==
    [instant |-> [details |->
        [air_temperature |-> 1000, air_pressure_at_sea_level |-> 101300,
         relative_humidity |-> 5000, cloud_area_fraction |-> 0,
         wind_speed |-> 300, wind_from_direction |-> 18000,
         ultraviolet_index_clear_sky |-> 800]],
     next_1_hours |-> [details |-> [precipitation_amount |-> 50]]]

\* no humidity and no next_1_hours block
ProfileNoHumidity ==
    [instant |-> [details |->
        [air_temperature |-> 1200, air_pressure_at_sea_level |-> 101250,
         cloud_area_fraction |-> 10000, wind_speed |-> 455,
         wind_from_direction |-> 27000, ultraviolet_index_clear_sky |-> 800]]]

\* humidity and an untracked field only
ProfileHumidityOnly ==
    [instant |-> [details |->
        [relative_humidity |-> 6125, dew_point_temperature |-> 310]],
     next_1_hours |-> [details |-> [precipitation_amount |-> 120]]]

Profiles == {ProfileFull, ProfileNoHumidity, ProfileHumidityOnly}

GoodEntries == {[time |-> IsoTime(t), data |-> p] : t \in SampleTimes, p \in Profiles}

BadEntries ==
    {[time |-> Unparsable, data |-> ProfileFull],
     [time |-> IsoTime(Day), data |-> [next_1_hours |-> ProfileFull["next_1_hours"]]]}

Responses ==
    [kind : {"request_error", "not_json", "no_timeseries"}, timeseries : {<<>>}]
    \cup [kind : {"ok"}, timeseries : SeqsUpTo(GoodEntries \cup BadEntries, MaxEntries)]

\* the series a successful fetch can hand to the derivation
SeriesUpTo(n) == {BuildSeries(ts) : ts \in SeqsUpTo(GoodEntries, n)}

(***************************************************************************)
(* The main thread: start() (lines 80-146).                                *)
(***************************************************************************)
Init ==
    /\ pc = "start"
    /\ cycle = 0
    /\ data = <<>>
    /\ now = 0
    /\ window = 0
    /\ published = <<>>
    /\ log = <<>>
    /\ outcome = "none"
    /\ utcoffset \in UtcOffsets
    /\ net = "none"
    /\ connects = 0
    /\ presence = <<>>

\* lines 85-91: connect and start the network loop; a connect that raises
\* is not caught and ends the process through the exit hook
Start ==
    /\ pc = "start"
    /\ \E connected \in BOOLEAN :
          IF connected
          THEN /\ pc' = "fetch"
               /\ cycle' = 1
               /\ net' = "idle"
          ELSE /\ pc' = "programend"
               /\ UNCHANGED <<cycle, net>>
    /\ UNCHANGED <<data, now, window, published, log, outcome,
                   utcoffset, connects, presence>>

FetchFailedUncaught(resp) ==
    /\ pc' = "stopped"
    /\ outcome' = "fetch_failed"
    /\ log' = <<>>
    /\ UNCHANGED <<data, now, published>>

\* lines 143-144 after a raise in lines 94-106
FetchFailed(resp) ==
    /\ pc' = "sleep"
    /\ outcome' = "fetch_failed"
    /\ log' = <<resp.kind>>
    /\ UNCHANGED <<data, now, published>>

\* lines 94-106
Fetch ==
    /\ pc = "fetch"
    /\ \E resp \in Responses, t \in NowSet :
          IF FetchRaises(resp)
          THEN FetchFailed(resp)
          ELSE /\ data' = BuildSeries(resp.timeseries)
               /\ now' = t
               /\ pc' = "interpolate"
               /\ outcome' = "running"
               /\ UNCHANGED <<published, log>>
    /\ UNCHANGED <<cycle, window, utcoffset, net, connects, presence>>

\* lines 108-122: the loop over the offsets, then line 125
Interpolate ==
    /\ pc = "interpolate"
    /\ LET r == ForecastLoop(data, now, 0)
       IN  /\ published' = published \o r.msgs
           /\ IF r.raised
              THEN /\ log' = Append(log, "ZeroDivisionError")
                   /\ outcome' = "aborted"
                   /\ pc' = "sleep"
                   /\ window' = 0
              ELSE /\ pc' = "aggregate"
                   /\ window' = 1
                   /\ UNCHANGED <<log, outcome>>
    /\ UNCHANGED <<cycle, data, now, utcoffset, net, connects, presence>>

\* line 131 `continue`, or the end of the loop body: on to the next window
NextWindow(w) ==
    IF w = 1
    THEN /\ window' = 2
         /\ UNCHANGED <<pc, outcome>>
    ELSE /\ pc' = "sleep"
         /\ window' = 0
         /\ outcome' = "completed"

NoPredictionDataRaises(w) ==
    /\ log' = Append(log, "No prediction data for " \o WindowTitle(w))
    /\ pc' = "sleep"
    /\ window' = 0
    /\ outcome' = "aborted"
    /\ UNCHANGED published

\* lines 129-131: an empty window is logged by title and skipped
NoPredictionData(w) ==
    /\ log' = Append(log, "No prediction data for " \o WindowTitle(w))
    /\ NextWindow(w)
    /\ UNCHANGED published

\* lines 127-141: one iteration of the loop over the two windows
Aggregate ==
    /\ pc = "aggregate"
    /\ LET r == PredRange(data, WindowStart(window, now, utcoffset),
                          WindowEnd(window, now, utcoffset))
       IN  IF Len(r) = 0
           THEN NoPredictionData(window)
           ELSE IF AggregateRaises(r)
           THEN /\ log' = Append(log, "KeyError")
                /\ outcome' = "aborted"
                /\ pc' = "sleep"
                /\ window' = 0
                /\ UNCHANGED published
           ELSE /\ published' =
                       Append(published, Message(WindowTopic(window), Aggregated(r), 0))
                /\ NextWindow(window)
                /\ UNCHANGED log
    /\ UNCHANGED <<cycle, data, now, utcoffset, net, connects, presence>>

\* line 146, and back to line 93; the locals of the finished cycle are dead
Sleep ==
    /\ pc = "sleep"
    /\ cycle < MaxCycles
    /\ pc' = "fetch"
    /\ cycle' = cycle + 1
    /\ data' = <<>>
    /\ now' = 0
    /\ published' = <<>>
    /\ log' = <<>>
    /\ outcome' = "none"
    /\ UNCHANGED <<window, utcoffset, net, connects, presence>>

(***************************************************************************)
(* Shutdown: the exit hook programend (lines 62, 148-154).                 *)
(***************************************************************************)
\* a KeyboardInterrupt or SystemExit is no Exception: line 143 lets it
\* through, the interpreter exits and runs the hook registered at line 62
Interrupt ==
    /\ pc \in {"fetch", "interpolate", "aggregate", "sleep"}
    /\ pc' = "programend"
    /\ data' = <<>>
    /\ now' = 0
    /\ window' = 0
    /\ published' = <<>>
    /\ log' = <<>>
    /\ outcome' = "none"
    /\ UNCHANGED <<cycle, utcoffset, net, connects, presence>>

\* line 151
ProgramEndPublish ==
    /\ pc = "programend"
    /\ presence' = Append(presence, Message(state_topic, [state |-> "offline"], 1))
    /\ pc' = "disconnect"
    /\ UNCHANGED <<cyclevars, utcoffset, net, connects>>

\* line 152: no CONNACK is delivered any more; a callback that is already
\* running runs on
ProgramEndDisconnect ==
    /\ pc = "disconnect"
    /\ pc' = "grace"
    /\ net' = IF net = "idle" THEN "closed" ELSE net
    /\ UNCHANGED <<cyclevars, utcoffset, connects, presence>>

\* lines 153-154: the grace delay, then the process and its daemon
\* network thread are gone
ProgramEndSleep ==
    /\ pc = "grace"
    /\ pc' = "stopped"
    /\ net' = IF net = "none" THEN "none" ELSE "closed"
    /\ UNCHANGED <<cyclevars, utcoffset, connects, presence>>

(***************************************************************************)
(* The network thread: mqtt_on_connect (lines 156-162).                    *)
(***************************************************************************)
\* a CONNACK arrives (first connect or a reconnect); line 158
OnConnectBegin ==
    /\ net = "idle"
    /\ connects < MaxConnects
    /\ net' = "callback"
    /\ connects' = connects + 1
    /\ UNCHANGED <<pc, cyclevars, utcoffset, presence>>

\* line 160
OnConnectPublish ==
    /\ net = "callback"
    /\ presence' = Append(presence, Message(state_topic, [state |-> "online"], 1))
    /\ net' = IF pc \in {"grace", "stopped"} THEN "closed" ELSE "idle"
    /\ UNCHANGED <<pc, cyclevars, utcoffset, connects>>

Next ==
    \/ Start
    \/ Fetch
    \/ Interpolate
    \/ Aggregate
    \/ Sleep
    \/ Interrupt
    \/ ProgramEndPublish
    \/ ProgramEndDisconnect
    \/ ProgramEndSleep
    \/ OnConnectBegin
    \/ OnConnectPublish

Spec == Init /\ [][Next]_vars

\* time.sleep returns: a sleeping main thread goes on to the next cycle
FairSpec == Spec /\ WF_vars(Sleep)

(***************************************************************************)
(* The interpolation on its own: the state right after a successful        *)
(* parse, over every series of up to MaxLen samples.  The local zone has   *)
(* no part in lines 108-122.                                               *)
(***************************************************************************)
InitInterpolate ==
    /\ pc = "interpolate"
    /\ cycle = 1
    /\ data \in SeriesUpTo(MaxLen)
    /\ now \in NowSet
    /\ window = 0
    /\ published = <<>>
    /\ log = <<>>
    /\ outcome = "running"
    /\ utcoffset = 0
    /\ net = "idle"
    /\ connects = 0
    /\ presence = <<>>

NextInterpolate == Interpolate

SpecInterpolate == InitInterpolate /\ [][NextInterpolate]_vars

(***************************************************************************)
(* The whole derivation of a cycle, interpolation and aggregation, over    *)
(* every series of up to MaxWindowLen samples and every local zone.        *)
(***************************************************************************)
InitDerive ==
    /\ pc = "interpolate"
    /\ cycle = 1
    /\ data \in SeriesUpTo(MaxWindowLen)
    /\ now \in NowSet
    /\ window = 0
    /\ published = <<>>
    /\ log = <<>>
    /\ outcome = "running"
    /\ utcoffset \in UtcOffsets
    /\ net = "idle"
    /\ connects = 0
    /\ presence = <<>>

NextDerive == Interpolate \/ Aggregate

SpecDerive == InitDerive /\ [][NextDerive]_vars

TypeOK ==
    /\ pc \in {"start", "fetch", "interpolate", "aggregate", "sleep",
               "programend", "disconnect", "grace", "stopped"}
    /\ cycle \in 0 .. MaxCycles
    /\ window \in 0 .. 2
    /\ net \in {"none", "idle", "callback", "closed"}
    /\ connects \in 0 .. MaxConnects

(***************************************************************************)
(* Properties.                                                             *)
(***************************************************************************)
Abs(x) == IF x < 0 THEN -x ELSE x

\* the offsets loop of the cycle in progress has run
Derived == pc \in {"aggregate", "sleep"} /\ outcome # "fetch_failed"

Target(i) == now + i * Hour

\* the consecutive pairs of the series that strictly surround Target(i)
BracketingPairs(i) ==
    {k \in 1 .. Len(data) - 1 :
        data[k]["time"] < Target(i) /\ Target(i) < data[k + 1]["time"]}

\* the positions in `published` of the messages on a topic
OnTopic(topic) == {n \in 1 .. Len(published) : published[n].topic = topic}

\* the tracked variables whose source field both samples carry
InBoth(a, b) ==
    {key \in DOMAIN prop_map :
        prop_map[key] \in DOMAIN a /\ prop_map[key] \in DOMAIN b}

\* C1: for every offset i in 0..18 the reading published for now + i hours
\* is the one interpolated from the first consecutive pair (a, b) with
\* a.time < target < b.time, and when no pair strictly surrounds the
\* target (before the first sample, at or after the last, or equal to a
\* sample's own timestamp) nothing is published for that offset.
C1_FirstBracketOrNothing ==
    Derived =>
        \A i \in Offsets :
            LET P == BracketingPairs(i)
                M == OnTopic(ForecastTopic(i))
            IN  /\ P = {} => M = {}
                /\ \A n \in M :
                       \E k \in P :
                           /\ \A j \in P : k <= j
                           /\ published[n].payload =
                                  Interpolated(data[k], data[k + 1], Target(i))

\* Two pairs surround one target and give different readings, the first
\* one's being published; another target hits a sample's timestamp and
\* is skipped.
C1_Witness ==
    /\ Derived
    /\ \E i \in Offsets :
           /\ Cardinality(BracketingPairs(i)) >= 2
           /\ \E n \in OnTopic(ForecastTopic(i)), k \in BracketingPairs(i) :
                  published[n].payload # Interpolated(data[k], data[k + 1], Target(i))
    /\ \E j \in Offsets, k \in 1 .. Len(data) :
           /\ data[k]["time"] = Target(j)
           /\ OnTopic(ForecastTopic(j)) = {}

\* C2: every value of a published interpolated reading is a multiple of
\* 0.1 and lies within 0.05 of a[v] + (b[v]-a[v]) * (target - a.time) /
\* (b.time - a.time), (a, b) being the first pair surrounding the target.
C2_RoundedLinearBlend ==
    Derived =>
        \A i \in Offsets :
            \A n \in OnTopic(ForecastTopic(i)) :
                /\ BracketingPairs(i) # {}
                /\ LET k == MinOf(BracketingPairs(i))
                       a == data[k]
                       b == data[k + 1]
                       span == b["time"] - a["time"]
                       payload == published[n].payload
                   IN  \A key \in DOMAIN payload :
                           LET v == prop_map[key]
                               num == a[v] * span
                                      + (b[v] - a[v]) * (Target(i) - a["time"])
                           IN  /\ span > 0
                               /\ payload[key] % 10 = 0
                               /\ 2 * Abs(payload[key] * span - num) <= 10 * span

\* 10.0 and 12.0 give 11.0 half way, and another value of the same
\* reading had to be rounded.
C2_Witness ==
    /\ Derived
    /\ \E i \in Offsets :
           \E n \in OnTopic(ForecastTopic(i)), k \in BracketingPairs(i) :
               LET a == data[k]
                   b == data[k + 1]
                   span == b["time"] - a["time"]
                   payload == published[n].payload
               IN  /\ k = MinOf(BracketingPairs(i))
                   /\ "air_temperature" \in DOMAIN a
                   /\ "air_temperature" \in DOMAIN b
                   /\ a["air_temperature"] = 1000
                   /\ b["air_temperature"] = 1200
                   /\ 2 * (Target(i) - a["time"]) = span
                   /\ payload["temperature"] = 1100
                   /\ \E key \in DOMAIN payload :
                          (a[prop_map[key]] * span
                           + (b[prop_map[key]] - a[prop_map[key]])
                             * (Target(i) - a["time"])) % (10 * span) # 0

\* C3: whenever a pair surrounds the target of offset i, exactly one
\* reading is published on that offset's topic, and its keys are exactly
\* the variables whose source field is in both samples of the first pair.
C3_PartialReadingPublished ==
    Derived =>
        \A i \in Offsets :
            BracketingPairs(i) # {} =>
                LET k == MinOf(BracketingPairs(i))
                    M == OnTopic(ForecastTopic(i))
                IN  /\ Cardinality(M) = 1
                    /\ \A n \in M :
                           DOMAIN published[n].payload = InBoth(data[k], data[k + 1])

\* C10: the pair the scan selects for any offset has b.time - a.time > 0,
\* so no cycle is aborted by a division by zero, ties and out-of-order
\* timestamps included.
C10_PositiveSpan ==
    /\ \A i \in Offsets :
           LET k == FirstBracket(data, Target(i))
           IN  k # 0 => data[k + 1]["time"] - data[k]["time"] > 0
    /\ \A n \in 1 .. Len(log) : log[n] # "ZeroDivisionError"
    /\ Derived => \A i \in Offsets :
                      BracketingPairs(i) = {} => OnTopic(ForecastTopic(i)) = {}

\* A series with a tie and an out-of-order pair went through the offsets
\* loop, which published a reading.
C10_Witness ==
    /\ Derived
    /\ \E k \in 1 .. Len(data) - 1 :
           /\ data[k]["time"] = data[k + 1]["time"]
           /\ InBoth(data[k], data[k + 1]) # {}
    /\ \E k \in 1 .. Len(data) - 1 : data[k]["time"] > data[k + 1]["time"]
    /\ published # <<>>

\* the start of the next local calendar day: the first instant after now
\* whose local wall-clock reading is a midnight
LocalMidnight == CHOOSE m \in now + 1 .. now + Day : (m + utcoffset) % Day = 0

\* the samples of [now, next local midnight) and of the local day after
WindowSet(w) ==
    {k \in 1 .. Len(data) :
        IF w = 1
        THEN now <= data[k]["time"] /\ data[k]["time"] < LocalMidnight
        ELSE /\ LocalMidnight <= data[k]["time"]
             /\ data[k]["time"] < LocalMidnight + Day}

\* the sample has the four fields the summary reads unconditionally
Complete(k) ==
    {"air_temperature", "cloud_area_fraction", "wind_speed",
     "ultraviolet_index_clear_sky"} \subseteq DOMAIN data[k]

NoDataLine(w) == "No prediction data for " \o (IF w = 1 THEN "today" ELSE "tomorrow")

Logged(line) == {n \in 1 .. Len(log) : log[n] = line}

RECURSIVE SumOver(_, _)
SumOver(S, f) ==
    IF S = {} THEN 0
    ELSE LET k == CHOOSE k \in S : TRUE
         IN  f[k] + SumOver(S \ {k}, f)

\* C4: a published summary of a window carries the true minimum and
\* maximum temperature and the maximum wind speed of the window-set, the
\* sum of the precipitation amounts of the samples that have one, and a
\* UV average within 0.005 of the mean of (1 - clouds/100) * clear-sky UV;
\* a window-set whose samples lack only precipitation amounts is published.
C4_AggregatedValues ==
    Derived =>
        \A w \in {1, 2} :
            LET W == WindowSet(w)
                M == OnTopic(WindowTopic(w))
                wet == {k \in W : "precipitation_amount" \in DOMAIN data[k]}
            IN  /\ ( /\ pc = "sleep"
                     /\ outcome = "completed"
                     /\ W # {}
                     /\ \A k \in W : Complete(k) ) => M # {}
                /\ \A n \in M :
                       LET r == published[n].payload
                       IN  /\ W # {}
                           /\ DOMAIN r = {"temperature_minimum", "temperature_maximum",
                                          "ultraviolet_index_actual_average",
                                          "wind_speed_max", "precipitation_amount"}
                           /\ \E k \in W : data[k]["air_temperature"] = r["temperature_minimum"]
                           /\ \A k \in W : data[k]["air_temperature"] >= r["temperature_minimum"]
                           /\ \E k \in W : data[k]["air_temperature"] = r["temperature_maximum"]
                           /\ \A k \in W : data[k]["air_temperature"] <= r["temperature_maximum"]
                           /\ \E k \in W : data[k]["wind_speed"] = r["wind_speed_max"]
                           /\ \A k \in W : data[k]["wind_speed"] <= r["wind_speed_max"]
                           /\ r["precipitation_amount"] =
                                  SumOver(wet, [k \in wet |-> data[k]["precipitation_amount"]])
                           /\ 2 * Abs(r["ultraviolet_index_actual_average"] * 10000 * Cardinality(W)
                                      - SumOver(W, [k \in W |->
                                            (10000 - data[k]["cloud_area_fraction"])
                                            * data[k]["ultraviolet_index_clear_sky"]]))
                                  <= 10000 * Cardinality(W)

\* Clouds {0, 100} with clear-sky UV {8, 8} are summarised as 4.00, and
\* the one precipitation amount of the two samples is the sum.
C4_Witness ==
    /\ Derived
    /\ \E w \in {1, 2} :
           \E n \in OnTopic(WindowTopic(w)), j, k \in WindowSet(w) :
               /\ WindowSet(w) = {j, k}
               /\ data[j]["cloud_area_fraction"] = 0
               /\ data[k]["cloud_area_fraction"] = 10000
               /\ data[j]["ultraviolet_index_clear_sky"] = 800
               /\ data[k]["ultraviolet_index_clear_sky"] = 800
               /\ published[n].payload["ultraviolet_index_actual_average"] = 400
               /\ "precipitation_amount" \in DOMAIN data[j]
               /\ "precipitation_amount" \notin DOMAIN data[k]
               /\ published[n].payload["precipitation_amount"] = data[j]["precipitation_amount"]

\* C5: an empty window-set publishes nothing on its topic and is logged
\* once by title, and the cycle goes on: after an empty "today" the
\* "tomorrow" window is still processed (published when it can be
\* summarised), a cycle is never aborted by a gap, and every offset whose
\* first surrounding pair shares a variable is published whatever offsets
\* before it had no pair.
C5_GapIsSkip ==
    Derived =>
        /\ \A w \in {1, 2} :
               /\ WindowSet(w) = {} => OnTopic(WindowTopic(w)) = {}
               /\ Cardinality(Logged(NoDataLine(w))) <= 1
               /\ Logged(NoDataLine(w)) # {} => WindowSet(w) = {}
        /\ (pc = "sleep" /\ WindowSet(1) = {}) =>
               /\ Cardinality(Logged(NoDataLine(1))) = 1
               /\ IF WindowSet(2) = {}
                  THEN Cardinality(Logged(NoDataLine(2))) = 1
                  ELSE IF \A k \in WindowSet(2) : Complete(k)
                  THEN Cardinality(OnTopic(WindowTopic(2))) = 1
                  ELSE Logged("KeyError") # {}
        /\ (pc = "sleep" /\ outcome = "completed" /\ WindowSet(2) = {}) =>
               Cardinality(Logged(NoDataLine(2))) = 1
        /\ outcome = "aborted" =>
               \E w \in {1, 2} : \E k \in WindowSet(w) : ~Complete(k)
        /\ \A i \in Offsets :
               ( /\ BracketingPairs(i) # {}
                 /\ LET k == MinOf(BracketingPairs(i))
                    IN  InBoth(data[k], data[k + 1]) # {} )
               => OnTopic(ForecastTopic(i)) # {}

\* "today" is empty and logged, "tomorrow" is published all the same, and
\* an offset is published after one that had no pair.
C5_Witness ==
    /\ pc = "sleep"
    /\ outcome = "completed"
    /\ WindowSet(1) = {}
    /\ log = <<NoDataLine(1)>>
    /\ OnTopic(WindowTopic(1)) = {}
    /\ OnTopic(WindowTopic(2)) # {}
    /\ \E i, j \in Offsets :
           /\ i < j
           /\ BracketingPairs(i) = {}
           /\ OnTopic(ForecastTopic(i)) = {}
           /\ OnTopic(ForecastTopic(j)) # {}

\* C7: "today" is [now, next local midnight) and "tomorrow" the local day
\* after it: the windows meet at the local midnight and do not overlap,
\* a sample at that midnight counts for "tomorrow", one at now for
\* "today", one before now for neither, and a finished cycle has published
\* or reported each window according to these sets.
C7_LocalDayWindows ==
    Derived =>
        /\ WindowStart(1, now, utcoffset) = now
        /\ WindowEnd(1, now, utcoffset) = LocalMidnight
        /\ WindowStart(2, now, utcoffset) = LocalMidnight
        /\ WindowEnd(2, now, utcoffset) = LocalMidnight + Day
        /\ \A k \in 1 .. Len(data) :
               LET x == data[k]
                   today == InWindow(x, WindowStart(1, now, utcoffset),
                                     WindowEnd(1, now, utcoffset))
                   tomorrow == InWindow(x, WindowStart(2, now, utcoffset),
                                        WindowEnd(2, now, utcoffset))
               IN  /\ ~(today /\ tomorrow)
                   /\ x["time"] = LocalMidnight => tomorrow /\ ~today
                   /\ x["time"] = now => today
                   /\ x["time"] < now => ~today /\ ~tomorrow
        /\ (pc = "sleep" /\ outcome = "completed") =>
               \A w \in {1, 2} :
                   /\ WindowSet(w) = {} <=> Logged(NoDataLine(w)) # {}
                   /\ WindowSet(w) # {} <=> OnTopic(WindowTopic(w)) # {}

\* In a zone off UTC a cycle summarised both windows of a series with a
\* sample at now and a sample on the local midnight.
C7_Witness ==
    /\ pc = "sleep"
    /\ outcome = "completed"
    /\ utcoffset # 0
    /\ \E k \in 1 .. Len(data) : data[k]["time"] = now
    /\ \E k \in 1 .. Len(data) : data[k]["time"] = LocalMidnight
    /\ WindowSet(1) # {}
    /\ OnTopic(WindowTopic(1)) # {}
    /\ OnTopic(WindowTopic(2)) # {}

\* C9: a finished cycle has published exactly one summary for every
\* window whose window-set is not empty, whatever fields its samples lack.
C9_MissingFieldNeverAborts ==
    (Derived /\ pc = "sleep") =>
        \A w \in {1, 2} :
            WindowSet(w) # {} => Cardinality(OnTopic(WindowTopic(w))) = 1

\* C6: a cycle whose fetch or parse raises publishes nothing and logs the
\* error, the main thread goes to its sleep and never stops there, and
\* from that sleep the next cycle's fetch is reached (unless the process
\* is shut down first), whatever the cycles before it did.
C6_FailedFetchIsSkipped ==
    /\ [](outcome = "fetch_failed" =>
              pc = "sleep" /\ published = <<>> /\ Len(log) = 1)
    /\ [][pc = "fetch" => pc' \in {"fetch", "interpolate", "sleep", "programend"}]_vars
    /\ [][(pc = "sleep" /\ pc' # "sleep") => pc' \in {"fetch", "programend"}]_vars
    /\ (pc = "sleep" /\ outcome = "fetch_failed" /\ cycle < MaxCycles)
           ~> (pc \in {"fetch", "programend"})

\* A later cycle's fetch failed after the first cycle had run.
C6_Witness ==
    /\ cycle >= 2
    /\ pc = "sleep"
    /\ outcome = "fetch_failed"
    /\ published = <<>>

State(n) == presence[n].payload.state

\* C8: the exit hook publishes "offline" exactly once, before the
\* disconnect, and no "online" follows it: when the process has stopped
\* the last presence message it published is "offline".
C8_OfflineIsLast ==
    /\ pc \in {"disconnect", "grace", "stopped"} =>
           Cardinality({n \in 1 .. Len(presence) : State(n) = "offline"}) = 1
    /\ pc \in {"start", "fetch", "interpolate", "aggregate", "sleep", "programend"} =>
           \A n \in 1 .. Len(presence) : State(n) = "online"
    /\ \A m, n \in 1 .. Len(presence) :
           (m < n /\ State(m) = "offline") => State(n) # "online"

====
